---- MODULE Spec2Model ----
(***************************************************************************)
(* A model of the hologram application: the hand tracker callback          *)
(* (src/components/HandTracker.tsx), the gesture shape selector and orbit  *)
(* smoother (src/App.tsx) and the overlay scheduler and per-hand morph     *)
(* engine (src/components/HologramScene.tsx).                              *)
(*                                                                         *)
(* Numbers are fixed point.  Hand positions and wrist coordinates are in   *)
(* thousandths, the camera orbit in millionths, the average fingertip      *)
(* distance in hundredths, timer delays in milliseconds.                   *)
(***************************************************************************)
EXTENDS Integers, Sequences, FiniteSets, TLC

VARIABLES
    appState,       \* App.tsx useState: leftHand, rightHand, cameraOrbit
    fistCount,      \* App.tsx fistCount.current
    s1Loaded,       \* the @mediapipe/hands script has run (window.Hands exists)
    s2Loaded,       \* the camera_utils script has run (window.Camera exists)
    retryPending,   \* a setTimeout(initTracking, 500) is pending
    handsRef,       \* HandTracker handsRef.current: "null", "open", "closed"
    cameraRef,      \* HandTracker cameraRef.current: "null", "started", "stopped"
    mounted,        \* the React tree is mounted (FALSE after teardown)
    isShowingText,  \* HologramScene useState: the overlay flag
    timers,         \* pending setTimeout callbacks of the overlay scheduler, in arming order
    elapsed,        \* observer: ms since the overlay scheduler last armed a timer
    lastWait,       \* observer: ms the last wait lasted, from arming to the flag turning true
    lastShown,      \* observer: ms the flag was last true for
    shapes,         \* HologramScene shapes: per library index, the points of the modelled particles
    textShape,      \* HologramScene textShape: the points of the modelled particles
    lerpSpeeds,     \* per hand, HandParticles lerpSpeeds (ten-thousandths)
    handParticles,  \* per hand, the HandParticles instance: refs, mesh, material, buffer
    groupRotation,  \* HologramScene groupRef.current.rotation (millionths)
    clock,          \* state.clock.elapsedTime at the last frame, ms
    applied,        \* observer: per hand, the mode, target and factors of its last tick
    bump,           \* observer: what each updateHand call of the last update added to fistCount.current
    branch,         \* observer: the branch each updateHand call took in the last update
    transitions,    \* observer: number of open->fist transitions delivered so far
    lastAssigned,   \* observer: per hand, the shapeIndex its last transition assigned
    absentSince,    \* observer: per hand, it was absent in a sample after its last transition
    targets,        \* observer: locked targets of the last LibrarySize transitions
    samples         \* observer: number of results delivered in a session that stops at MaxSamples

trackerVars == <<s1Loaded, s2Loaded, retryPending, handsRef, cameraRef>>
selectorVars == <<appState, fistCount>>
overlayVars == <<isShowingText, timers, elapsed, lastWait, lastShown>>
sceneVars == <<shapes, textShape, lerpSpeeds, handParticles, groupRotation, clock,
               applied>>
observerVars == <<bump, branch, transitions, lastAssigned, absentSince, targets,
                  samples>>

vars == <<appState, fistCount, s1Loaded, s2Loaded, retryPending, handsRef,
          cameraRef, mounted, isShowingText, timers, elapsed, lastWait, lastShown,
          shapes, textShape, lerpSpeeds, handParticles, groupRotation, clock, applied,
          bump, branch, transitions, lastAssigned, absentSince,
          targets, samples>>

-----------------------------------------------------------------------------
(* Program constants *)

\* HologramScene.tsx 897-965: the number of list.push calls that build shapes
LibrarySize == 62

\* App.tsx 35: the modulus written into updateHand
SelectorModulus == 65

\* HandTracker.tsx 53: isFist = avgDist < 0.11, in hundredths
FistThreshold == 11

\* HologramScene.tsx 971: delay = 15000 + Math.random() * 30000
MinDelay == 15000
DelaySpan == 30000

\* HologramScene.tsx 974: the hide timer's delay
ShowTime == 3000

-----------------------------------------------------------------------------
(* Bounds of the model *)

\* SpecSelector stops delivering samples once fistCount.current reaches this
MaxFistCount == 66

\* SpecOverlay and Spec stop delivering samples once fistCount.current reaches this
SessionMaxFist == 2

\* Math.random() yields k / RandDenom for k in 0..RandDenom-1
RandDenom == 4

\* SpecOverlay lets time pass in steps of at most this many ms
Quantum == 3000

\* the particles of each buffer the model follows, out of PARTICLE_COUNT
ModelParticles == 1

\* frames are rendered until state.clock.elapsedTime exceeds this many ms
MaxClock == 32

\* SpecSpread and SpecOrbit deliver this many results at most
MaxSamples == 4

\* SpecShimmer renders frames until state.clock.elapsedTime exceeds this many ms
SlowClock == 500

\* SpecConverge renders frames until state.clock.elapsedTime exceeds this many ms
LongClock == 720

\* SpecScenario: the results without a hand before the left hand comes into view
AbsentSamples == 10

\* SpecScenario: the frames the left hand is open for before it closes
OpenTicks == 5

\* SpecScenario renders frames until state.clock.elapsedTime exceeds this many ms
ScenarioClock == 880

\* value of an observer that has recorded nothing yet
None == 0 - 1

HandNames == {"left", "right"}

-----------------------------------------------------------------------------
(* App.tsx *)

INITIAL_HAND_STATE ==
    [isActive |-> FALSE, isFist |-> FALSE,
     position |-> [x |-> 0, y |-> 0, z |-> 0],
     velocity |-> [x |-> 0, y |-> 0],
     shapeIndex |-> 0]

\* A sample the tracker found no hand for
Null == [isNull |-> TRUE]

IsNull(current) == "isNull" \in DOMAIN current

\* updateHand's test for an open->fist transition (line 32)
IsFistClose(current, prevHand) ==
    /\ ~IsNull(current)
    /\ current.isFist
    /\ ~prevHand.isFist

\* updateHand as it would be if an absent hand were only marked inactive
UpdateHandKeepsPose(current, prevHand, count) ==
    IF ~IsNull(current)
    THEN IF current.isFist /\ ~prevHand.isFist
         THEN [hand  |-> [current EXCEPT !.shapeIndex = ((count + 1) - 1) % SelectorModulus],
               count |-> count + 1,
               taken |-> "fistClose"]
         ELSE [hand  |-> [current EXCEPT !.shapeIndex = prevHand.shapeIndex],
               count |-> count,
               taken |-> "carry"]
    ELSE [hand  |-> [prevHand EXCEPT !.isActive = FALSE],
          count |-> count, taken |-> "absent"]

\* updateHand as it would be if an absent hand kept its stored shapeIndex
UpdateHandKeepsIndex(current, prevHand, count) ==
    IF ~IsNull(current)
    THEN IF current.isFist /\ ~prevHand.isFist
         THEN [hand  |-> [current EXCEPT !.shapeIndex = ((count + 1) - 1) % SelectorModulus],
               count |-> count + 1,
               taken |-> "fistClose"]
         ELSE [hand  |-> [current EXCEPT !.shapeIndex = prevHand.shapeIndex],
               count |-> count,
               taken |-> "carry"]
    ELSE [hand  |-> [INITIAL_HAND_STATE EXCEPT !.shapeIndex = prevHand.shapeIndex],
          count |-> count, taken |-> "absent"]

\* updateHand as it would be without the else branch of line 37: the sample's
\* own shapeIndex goes through
UpdateHandNoCarry(current, prevHand, count) ==
    IF ~IsNull(current)
    THEN IF current.isFist /\ ~prevHand.isFist
         THEN [hand  |-> [current EXCEPT !.shapeIndex = ((count + 1) - 1) % SelectorModulus],
               count |-> count + 1,
               taken |-> "fistClose"]
         ELSE [hand |-> current, count |-> count, taken |-> "carry"]
    ELSE [hand |-> INITIAL_HAND_STATE, count |-> count, taken |-> "absent"]

\* updateHand as it would be if line 32 tested current.isFist alone
UpdateHandEveryFist(current, prevHand, count) ==
    IF ~IsNull(current)
    THEN IF current.isFist
         THEN [hand  |-> [current EXCEPT !.shapeIndex = ((count + 1) - 1) % SelectorModulus],
               count |-> count + 1,
               taken |-> "fistClose"]
         ELSE [hand  |-> [current EXCEPT !.shapeIndex = prevHand.shapeIndex],
               count |-> count,
               taken |-> "carry"]
    ELSE [hand |-> INITIAL_HAND_STATE, count |-> count, taken |-> "absent"]

\* updateHand as it would be if line 32 counted a fist only for a hand stored as
\* detected and open
UpdateHandNeedsOpen(current, prevHand, count) ==
    IF ~IsNull(current)
    THEN IF current.isFist /\ prevHand.isActive /\ ~prevHand.isFist
         THEN [hand  |-> [current EXCEPT !.shapeIndex = ((count + 1) - 1) % SelectorModulus],
               count |-> count + 1,
               taken |-> "fistClose"]
         ELSE [hand  |-> [current EXCEPT !.shapeIndex = prevHand.shapeIndex],
               count |-> count,
               taken |-> "carry"]
    ELSE [hand |-> INITIAL_HAND_STATE, count |-> count, taken |-> "absent"]

\* updateHand(current, prevHand) with fistCount.current = count on entry:
\* the hand state it returns and fistCount.current on exit
UpdateHand(current, prevHand, count) ==
    IF ~IsNull(current)
    THEN IF current.isFist /\ ~prevHand.isFist
         THEN [hand  |-> [current EXCEPT !.shapeIndex = ((count + 1) - 1) % SelectorModulus],
               count |-> count + 1,
               taken |-> "fistClose"]
         ELSE [hand  |-> [current EXCEPT !.shapeIndex = prevHand.shapeIndex],
               count |-> count,
               taken |-> "carry"]
    ELSE [hand |-> INITIAL_HAND_STATE, count |-> count, taken |-> "absent"]

\* x * 0.94 and x * 0.96 on the fixed-point orbit, rounded toward zero
Scale(x, percent) ==
    IF x >= 0 THEN (x * percent) \div 100 ELSE -(((-x) * percent) \div 100)

\* the new cameraOrbit as it would be if it were set back to 0 with no hand in view
NewOrbitResets(prevOrbit, l, r) ==
    LET sum == (IF l.isActive THEN l.position.x ELSE 0)
               + (IF r.isActive THEN r.position.x ELSE 0)
        activeCount == (IF l.isActive THEN 1 ELSE 0) + (IF r.isActive THEN 1 ELSE 0)
    IN  IF activeCount > 0
        THEN Scale(prevOrbit, 94) + (IF activeCount = 2 THEN sum * 12 ELSE sum * 24)
        ELSE 0

\* the new cameraOrbit as it would be without the division by activeCount
NewOrbitSumsHands(prevOrbit, l, r) ==
    LET sum == (IF l.isActive THEN l.position.x ELSE 0)
               + (IF r.isActive THEN r.position.x ELSE 0)
        activeCount == (IF l.isActive THEN 1 ELSE 0) + (IF r.isActive THEN 1 ELSE 0)
    IN  IF activeCount > 0
        THEN Scale(prevOrbit, 94) + sum * 24
        ELSE Scale(prevOrbit, 96)

\* lines 47-64: the new cameraOrbit (millionths) from the two new hand states
\* (positions in thousandths): (sum / activeCount) * 0.4 * 0.06 = sum * 24 / activeCount
NewOrbit(prevOrbit, l, r) ==
    LET sum == (IF l.isActive THEN l.position.x ELSE 0)
               + (IF r.isActive THEN r.position.x ELSE 0)
        activeCount == (IF l.isActive THEN 1 ELSE 0) + (IF r.isActive THEN 1 ELSE 0)
    IN  IF activeCount > 0
        THEN Scale(prevOrbit, 94) + (IF activeCount = 2 THEN sum * 12 ELSE sum * 24)
        ELSE Scale(prevOrbit, 96)

\* the locked-shape lookup as it would be without the % shapes.length
LockedTargetUnwrapped(shapeIndex) == shapeIndex

\* the locked-shape lookup of HandParticles.useFrame (line 845)
LockedTarget(shapeIndex) == shapeIndex % LibrarySize

Push(seq, x) ==
    IF Len(seq) < LibrarySize THEN Append(seq, x) ELSE Append(Tail(seq), x)

\* handleHandUpdate as it would be if both updateHand calls started from the
\* counter the updater was entered with
HandleHandUpdateOneCount(left, right) ==
    LET ul == UpdateHand(left, appState.leftHand, fistCount)
        ur == UpdateHand(right, appState.rightHand, fistCount)
        tl == IF IsFistClose(left, appState.leftHand) THEN 1 ELSE 0
        tr == IF IsFistClose(right, appState.rightHand) THEN 1 ELSE 0
        t1 == IF tl = 1 THEN Push(targets, LockedTarget(ul.hand.shapeIndex)) ELSE targets
        t2 == IF tr = 1 THEN Push(t1, LockedTarget(ur.hand.shapeIndex)) ELSE t1
    IN  /\ appState' = [leftHand    |-> ul.hand,
                        rightHand   |-> ur.hand,
                        cameraOrbit |-> NewOrbit(appState.cameraOrbit, ul.hand, ur.hand)]
        /\ fistCount' = ur.count
        /\ bump' = [left |-> ul.count - fistCount, right |-> ur.count - ul.count]
        /\ branch' = [left |-> ul.taken, right |-> ur.taken]
        /\ transitions' = transitions + tl + tr
        /\ lastAssigned' = [left  |-> IF tl = 1 THEN ul.hand.shapeIndex
                                      ELSE lastAssigned.left,
                            right |-> IF tr = 1 THEN ur.hand.shapeIndex
                                      ELSE lastAssigned.right]
        /\ absentSince' = [left  |-> IF IsNull(left) THEN TRUE
                                     ELSE IF tl = 1 THEN FALSE ELSE absentSince.left,
                           right |-> IF IsNull(right) THEN TRUE
                                     ELSE IF tr = 1 THEN FALSE ELSE absentSince.right]
        /\ targets' = t2

\* handleHandUpdate(left, right): the setAppState updater, applied to appState
HandleHandUpdate(left, right) ==
    LET ul == UpdateHand(left, appState.leftHand, fistCount)
        ur == UpdateHand(right, appState.rightHand, ul.count)
        tl == IF IsFistClose(left, appState.leftHand) THEN 1 ELSE 0
        tr == IF IsFistClose(right, appState.rightHand) THEN 1 ELSE 0
        t1 == IF tl = 1 THEN Push(targets, LockedTarget(ul.hand.shapeIndex)) ELSE targets
        t2 == IF tr = 1 THEN Push(t1, LockedTarget(ur.hand.shapeIndex)) ELSE t1
    IN  /\ appState' = [leftHand    |-> ul.hand,
                        rightHand   |-> ur.hand,
                        cameraOrbit |-> NewOrbit(appState.cameraOrbit, ul.hand, ur.hand)]
        /\ fistCount' = ur.count
        /\ bump' = [left |-> ul.count - fistCount, right |-> ur.count - ul.count]
        /\ branch' = [left |-> ul.taken, right |-> ur.taken]
        /\ transitions' = transitions + tl + tr
        /\ lastAssigned' = [left  |-> IF tl = 1 THEN ul.hand.shapeIndex
                                      ELSE lastAssigned.left,
                            right |-> IF tr = 1 THEN ur.hand.shapeIndex
                                      ELSE lastAssigned.right]
        /\ absentSince' = [left  |-> IF IsNull(left) THEN TRUE
                                     ELSE IF tl = 1 THEN FALSE ELSE absentSince.left,
                           right |-> IF IsNull(right) THEN TRUE
                                     ELSE IF tr = 1 THEN FALSE ELSE absentSince.right]
        /\ targets' = t2

Hand(h) == IF h = "left" THEN appState.leftHand ELSE appState.rightHand

-----------------------------------------------------------------------------
(* HandTracker.tsx *)

\* lines 55-66: the HandState built for one detection; wrist in thousandths of
\* the frame, avgDist in hundredths
MakeHandState(d) ==
    LET isFist == d.avgDist < FistThreshold
    IN  [isActive |-> TRUE,
         isFist   |-> isFist,
         position |-> [x |-> ((500 - d.wristX) * 85) \div 10,
                       y |-> (500 - d.wristY) * 6,
                       z |-> IF isFist THEN 500 ELSE 0],
         velocity |-> [x |-> 0, y |-> 0],
         shapeIndex |-> 0]

\* lines 38-71: the forEach over the detections; a later detection with the same
\* handedness label replaces an earlier one
RECURSIVE Assign(_, _, _, _)
Assign(results, i, l, r) ==
    IF i > Len(results) THEN [left |-> l, right |-> r]
    ELSE IF results[i].label = "Left"
         THEN Assign(results, i + 1, MakeHandState(results[i]), r)
         ELSE Assign(results, i + 1, l, MakeHandState(results[i]))

\* lines 37-73: hands.onResults
OnResults(results) ==
    LET hs == Assign(results, 1, Null, Null)
    IN  /\ cameraRef = "started"
        /\ handsRef = "open"
        /\ mounted
        /\ HandleHandUpdate(hs.left, hs.right)
        /\ UNCHANGED <<trackerVars, mounted, overlayVars, sceneVars>>

\* lines 18-87: initTracking
InitTracking ==
    IF ~(s1Loaded' /\ s2Loaded')
    THEN /\ retryPending' = TRUE
         /\ UNCHANGED <<handsRef, cameraRef>>
    ELSE /\ retryPending' = FALSE
         /\ handsRef' = "open"
         /\ cameraRef' = IF mounted THEN "started" ELSE cameraRef

\* the hands bundle finishes loading (script s1)
S1Load ==
    /\ ~s1Loaded
    /\ s1Loaded' = TRUE
    /\ UNCHANGED <<s2Loaded, retryPending, handsRef, cameraRef, mounted,
                   selectorVars, observerVars, overlayVars, sceneVars>>

\* line 97: s2.onload = initTracking
S2Load ==
    /\ ~s2Loaded
    /\ s2Loaded' = TRUE
    /\ UNCHANGED s1Loaded
    /\ InitTracking
    /\ UNCHANGED <<mounted, selectorVars, observerVars, overlayVars, sceneVars>>

\* line 22: the retry timer fires
RetryFire ==
    /\ retryPending
    /\ UNCHANGED <<s1Loaded, s2Loaded>>
    /\ InitTracking
    /\ UNCHANGED <<mounted, selectorVars, observerVars, overlayVars, sceneVars>>

-----------------------------------------------------------------------------
(* HologramScene.tsx: the overlay scheduler *)

\* Math.random() as the fraction k / RandDenom
RandomDraws == 0..(RandDenom - 1)

\* the delay as it would be with the span taken for the upper end of the range
TriggerDelayWide(k) == MinDelay + (k * (MinDelay + DelaySpan)) \div RandDenom

\* line 971: 15000 + Math.random() * 30000, for Math.random() = k / RandDenom
TriggerDelay(k) == MinDelay + (k * DelaySpan) \div RandDenom

Timer(kind, delay) == [kind |-> kind, remaining |-> delay]

\* lines 970-976: trigger() arms the wait
Trigger(ts, k) == Append(ts, Timer("show", TriggerDelay(k)))

\* the show callback as it would be if it called trigger() as well
ArmHideAndTrigger(ts) ==
    Append(Append(ts, Timer("hide", ShowTime)), Timer("show", MinDelay))

\* line 974: the show callback arms the hide timer
ArmHide(ts) == Append(ts, Timer("hide", ShowTime))

Remove(ts, i) == [j \in 1..(Len(ts) - 1) |-> IF j < i THEN ts[j] ELSE ts[j + 1]]

\* setIsShowingText(v): a state update of an unmounted component is dropped
SetIsShowingText(v) == isShowingText' = IF mounted THEN v ELSE isShowingText

\* lines 972-975: the wait timer fires
TimerShow ==
    \E i \in 1..Len(timers) :
        /\ timers[i].kind = "show"
        /\ timers[i].remaining = 0
        /\ SetIsShowingText(TRUE)
        /\ timers' = ArmHide(Remove(timers, i))
        /\ lastWait' = elapsed
        /\ elapsed' = 0
        /\ UNCHANGED <<lastShown, mounted, trackerVars, selectorVars, observerVars,
                       sceneVars>>

\* line 974: the hide timer fires and calls trigger(), Math.random() drawing
\* from draws
TimerHideWith(draws) ==
    \E i \in 1..Len(timers) :
        /\ timers[i].kind = "hide"
        /\ timers[i].remaining = 0
        /\ SetIsShowingText(FALSE)
        /\ \E k \in draws : timers' = Trigger(Remove(timers, i), k)
        /\ lastShown' = elapsed
        /\ elapsed' = 0
        /\ UNCHANGED <<lastWait, mounted, trackerVars, selectorVars, observerVars,
                       sceneVars>>

TimerHide == TimerHideWith(RandomDraws)

MinRemaining ==
    CHOOSE m \in {timers[i].remaining : i \in 1..Len(timers)} :
        \A i \in 1..Len(timers) : m <= timers[i].remaining

\* dt ms pass without a timer coming due before the end of them
Advance(dt) ==
    /\ Len(timers) > 0
    /\ dt > 0
    /\ dt <= MinRemaining
    /\ timers' = [i \in 1..Len(timers) |->
                    [timers[i] EXCEPT !.remaining = timers[i].remaining - dt]]
    /\ elapsed' = elapsed + dt
    /\ UNCHANGED <<isShowingText, lastWait, lastShown, mounted, trackerVars,
                   selectorVars, observerVars, sceneVars>>

\* unmounting the application: HandTracker's effect cleanup (lines 99-102); the
\* effect of HologramScene lines 969-978 returns no cleanup
Teardown ==
    /\ mounted
    /\ mounted' = FALSE
    /\ cameraRef' = IF cameraRef = "started" THEN "stopped" ELSE cameraRef
    /\ handsRef' = IF handsRef = "open" THEN "closed" ELSE handsRef
    /\ UNCHANGED <<s1Loaded, s2Loaded, retryPending, overlayVars, selectorVars,
                   observerVars, sceneVars>>

-----------------------------------------------------------------------------
(* HologramScene.tsx: HandParticles *)

Other(h) == IF h = "left" THEN "right" ELSE "left"

Max(a, b) == IF a >= b THEN a ELSE b
Min(a, b) == IF a <= b THEN a ELSE b
Abs(a) == IF a >= 0 THEN a ELSE -a

\* a / b rounded toward zero
Div(a, b) == IF a >= 0 THEN a \div b ELSE -((-a) \div b)

ParticleIds == 1..ModelParticles

\* Math.sin on milliradians (x >= 0), in thousandths: Bhaskara's rational
\* approximation on each half period
HalfSine(x) == ((16 * x * (3142 - x)) \div (((5 * 3142 * 3142) - (4 * x * (3142 - x))) \div 1000))

Sin(x) ==
    LET r == x % 6284
    IN  IF r <= 3142 THEN HalfSine(r) ELSE -HalfSine(r - 3142)

Cos(x) == Sin(x + 1571)

\* Math.sqrt on a non-negative integer, rounded down
RECURSIVE Newton(_, _)
Newton(n, g) ==
    LET next == (g + n \div g) \div 2
    IN  IF next >= g THEN g ELSE Newton(n, next)

Sqrt(n) == IF n = 0 THEN 0 ELSE Newton(n, n)

\* line 819: 0.07 + Math.random() * 0.08 for Math.random() = k / RandDenom,
\* in ten-thousandths
LerpSpeed(k) == 700 + (k * 800) \div RandDenom

\* the step as it would be with a factor ten times too large
LerpTenfold(p, t, factor) == p + Div((t - p) * factor, 1000)

\* p += (t - p) * factor, factor in ten-thousandths
Lerp(p, t, factor) == p + Div((t - p) * factor, 10000)

LerpPoint(p, t, factor) ==
    [x |-> Lerp(p.x, t.x, factor), y |-> Lerp(p.y, t.y, factor),
     z |-> Lerp(p.z, t.z, factor)]

\* the spread as it would be without the Math.min(..., 3.0) and with the other
\* hand's fist not looked at
SpreadUnbounded(hand, otherHand) ==
    LET dx == hand.position.x - otherHand.position.x
        dy == hand.position.y - otherHand.position.y
        dist == Sqrt(dx * dx + dy * dy)
    IN  IF otherHand.isActive THEN 1000 + dist \div 2 ELSE 1000

\* lines 862-863: the spread of the ambient cloud, in thousandths
Spread(hand, otherHand) ==
    LET dx == hand.position.x - otherHand.position.x
        dy == hand.position.y - otherHand.position.y
        dist == Sqrt(dx * dx + dy * dy)
    IN  IF otherHand.isActive /\ ~otherHand.isFist
        THEN 1000 + Min(dist \div 2, 3000)
        ELSE 1000

\* lines 865-877: the ambient target of particle i (0-based) at time ms, with its
\* drift, in thousandths
CloudTarget(i, time, spread) ==
    LET seed == i * 420
        tx == Div(Sin(seed + (time * 35) \div 100) * 18 * spread, 10000)
        ty == Div(Cos((seed * 85) \div 100 + (time * 45) \div 100) * 18 * spread, 10000)
        tz == Div(Sin((seed * 115) \div 100 + (time * 25) \div 100) * 12, 10)
        driftX == Div(Sin((time * 15) \div 100 + seed * 2) * 15, 100)
        driftY == Div(Cos((time * 20) \div 100 + seed * 3) * 15, 100)
        driftZ == Div(Sin((time * 10) \div 100 + (seed * 15) \div 10) * 15, 100)
    IN  [x |-> tx + driftX, y |-> ty + driftY, z |-> tz + driftZ]

\* the choice of lines 844, 854 and 861 as it would be with the overlay tested first
MorphModeOverlayFirst(hand, showing) ==
    IF showing THEN "overlay" ELSE IF hand.isFist THEN "locked" ELSE "ambient"

\* the branch as it would be if a closed hand were not locked to its shape
MorphModeNeverLocked(hand, showing) ==
    IF showing THEN "overlay" ELSE "ambient"

\* lines 844, 854, 861: the branch the tick takes for an active hand
MorphMode(hand, showing) ==
    IF hand.isFist THEN "locked" ELSE IF showing THEN "overlay" ELSE "ambient"

\* lines 844-879: for an active hand, the mode of the tick and per modelled
\* particle the target point and the factor (ten-thousandths)
MorphPlan(h, hand, otherHand, showing, time) ==
    LET mode == MorphMode(hand, showing)
        found == mode # "locked" \/ LockedTarget(hand.shapeIndex) \in DOMAIN shapes
    IN  [mode   |-> mode,
         shape  |-> IF mode = "locked" THEN LockedTarget(hand.shapeIndex) ELSE None,
         found  |-> found,
         target |-> [j \in ParticleIds |->
                       CASE ~found -> [x |-> 0, y |-> 0, z |-> 0]
                         [] mode = "locked"  -> shapes[LockedTarget(hand.shapeIndex)][j]
                         [] mode = "overlay" -> textShape[j]
                         [] OTHER -> CloudTarget(j - 1, time, Spread(hand, otherHand))],
         factor |-> [j \in ParticleIds |->
                       CASE mode = "locked"  -> lerpSpeeds[h][j]
                         [] mode = "overlay" -> (lerpSpeeds[h][j] * 3) \div 2
                         [] OTHER -> 500]]

\* the frame of one hand as it would be if the particles were morphed before the
\* isActive test
TickMorphsHidden(h, hp, hand, otherHand, showing, delta, time) ==
    LET reset == IF hand.isFist /\ ~hp.prevIsFist THEN 1000 ELSE hp.shimmerValue
        shimmer == Max(0, reset - (delta * 5) \div 2)
        plan == MorphPlan(h, hand, otherHand, showing, time)
        moved == [hp EXCEPT
                    !.shimmerValue = shimmer,
                    !.prevIsFist = hand.isFist,
                    !.size = 14000 + 21 * shimmer,
                    !.opacity = 85000 + 15 * shimmer,
                    !.position = LerpPoint(hp.position, hand.position, 1500),
                    !.rotationY = hp.rotationY + delta * 400]
    IN  IF ~hand.isActive
        THEN [moved EXCEPT
                !.visible = FALSE,
                !.pos = [j \in ParticleIds |->
                           LerpPoint(hp.pos[j], plan.target[j], plan.factor[j])],
                !.needsUpdate = hp.needsUpdate + 1]
        ELSE [moved EXCEPT
                !.visible = TRUE,
                !.pos = [j \in ParticleIds |->
                           LerpPoint(hp.pos[j], plan.target[j], plan.factor[j])],
                !.needsUpdate = hp.needsUpdate + 1]

\* the frame of one hand as it would be if the isActive test came before the
\* anchor and the rotation are moved
TickFreezesAnchor(h, hp, hand, otherHand, showing, delta, time) ==
    LET reset == IF hand.isFist /\ ~hp.prevIsFist THEN 1000 ELSE hp.shimmerValue
        shimmer == Max(0, reset - (delta * 5) \div 2)
        plan == MorphPlan(h, hand, otherHand, showing, time)
        moved == [hp EXCEPT
                    !.shimmerValue = shimmer,
                    !.prevIsFist = hand.isFist,
                    !.size = 14000 + 21 * shimmer,
                    !.opacity = 85000 + 15 * shimmer,
                    !.position = LerpPoint(hp.position, hand.position, 1500),
                    !.rotationY = hp.rotationY + delta * 400]
    IN  IF ~hand.isActive
        THEN [moved EXCEPT !.visible = FALSE, !.position = hp.position,
                           !.rotationY = hp.rotationY]
        ELSE [moved EXCEPT
                !.visible = TRUE,
                !.pos = [j \in ParticleIds |->
                           LerpPoint(hp.pos[j], plan.target[j], plan.factor[j])],
                !.needsUpdate = hp.needsUpdate + 1]

\* the frame of one hand as it would be without the Math.max(0, ...) floor
TickNoFloor(h, hp, hand, otherHand, showing, delta, time) ==
    LET reset == IF hand.isFist /\ ~hp.prevIsFist THEN 1000 ELSE hp.shimmerValue
        shimmer == reset - (delta * 5) \div 2
        plan == MorphPlan(h, hand, otherHand, showing, time)
        moved == [hp EXCEPT
                    !.shimmerValue = shimmer,
                    !.prevIsFist = hand.isFist,
                    !.size = 14000 + 21 * shimmer,
                    !.opacity = 85000 + 15 * shimmer,
                    !.position = LerpPoint(hp.position, hand.position, 1500),
                    !.rotationY = hp.rotationY + delta * 400]
    IN  IF ~hand.isActive
        THEN [moved EXCEPT !.visible = FALSE]
        ELSE [moved EXCEPT
                !.visible = TRUE,
                !.pos = [j \in ParticleIds |->
                           LerpPoint(hp.pos[j], plan.target[j], plan.factor[j])],
                !.needsUpdate = hp.needsUpdate + 1]

\* the frame of one hand as it would be if the shimmer sped the morph up
TickShimmerSpeeds(h, hp, hand, otherHand, showing, delta, time) ==
    LET reset == IF hand.isFist /\ ~hp.prevIsFist THEN 1000 ELSE hp.shimmerValue
        shimmer == Max(0, reset - (delta * 5) \div 2)
        plan == MorphPlan(h, hand, otherHand, showing, time)
        moved == [hp EXCEPT
                    !.shimmerValue = shimmer,
                    !.prevIsFist = hand.isFist,
                    !.size = 14000 + 21 * shimmer,
                    !.opacity = 85000 + 15 * shimmer,
                    !.position = LerpPoint(hp.position, hand.position, 1500),
                    !.rotationY = hp.rotationY + delta * 400]
    IN  IF ~hand.isActive
        THEN [moved EXCEPT !.visible = FALSE]
        ELSE [moved EXCEPT
                !.visible = TRUE,
                !.pos = [j \in ParticleIds |->
                           LerpPoint(hp.pos[j], plan.target[j],
                                     plan.factor[j] + shimmer)],
                !.needsUpdate = hp.needsUpdate + 1]

\* lines 823-881: one call of the useFrame callback of hand h's HandParticles,
\* delta in ms: the instance after it; `if (target)` (846) skips the morph when
\* the lookup found no shape
Tick(h, hp, hand, otherHand, showing, delta, time) ==
    LET reset == IF hand.isFist /\ ~hp.prevIsFist THEN 1000 ELSE hp.shimmerValue
        shimmer == Max(0, reset - (delta * 5) \div 2)
        plan == MorphPlan(h, hand, otherHand, showing, time)
        moved == [hp EXCEPT
                    !.shimmerValue = shimmer,
                    !.prevIsFist = hand.isFist,
                    !.size = 14000 + 21 * shimmer,
                    !.opacity = 85000 + 15 * shimmer,
                    !.position = LerpPoint(hp.position, hand.position, 1500),
                    !.rotationY = hp.rotationY + delta * 400]
    IN  IF ~hand.isActive
        THEN [moved EXCEPT !.visible = FALSE]
        ELSE [moved EXCEPT
                !.visible = TRUE,
                !.pos = IF plan.found
                        THEN [j \in ParticleIds |->
                                LerpPoint(hp.pos[j], plan.target[j], plan.factor[j])]
                        ELSE hp.pos,
                !.needsUpdate = hp.needsUpdate + 1]

\* what the tick of hand h read and chose
Applied(h, hand, otherHand, showing, time) ==
    IF ~hand.isActive THEN [active |-> FALSE]
    ELSE [active |-> TRUE, isFist |-> hand.isFist, shapeIndex |-> hand.shapeIndex,
          showing |-> showing, spread |-> Spread(hand, otherHand),
          plan |-> MorphPlan(h, hand, otherHand, showing, time)]

\* lines 980-985: the group follows the camera orbit (millionths)
GroupRotation(orbit) == [x |-> -Div(Abs(orbit), 10), y |-> Div(orbit, 2)]

\* what a frame does to appState and fistCount.current as it would be if the
\* orbit were smoothed once per frame
FrameSmoothsOrbit ==
    /\ appState' = [appState EXCEPT !.cameraOrbit = Scale(appState.cameraOrbit, 96)]
    /\ UNCHANGED fistCount

\* what a frame does to appState and fistCount.current as it would be if the
\* frame counted the fist it sees
FrameCountsFist ==
    /\ fistCount' = fistCount + (IF appState.leftHand.isFist THEN 1 ELSE 0)
                              + (IF appState.rightHand.isFist THEN 1 ELSE 0)
    /\ UNCHANGED appState

\* lines 823-881, 980-985: the useFrame callbacks read the hand and appState
\* props and write neither appState nor fistCount.current
FrameSelectorEffect == UNCHANGED <<appState, fistCount>>

\* the refs and the buffer as they would be if both HandParticles worked on those
\* of the left hand
SharedInstance(h) == handParticles.left

\* lines 816-821: the refs and the buffer the useFrame callback of hand h works
\* on are those of its own HandParticles instance (useRef, useMemo)
OwnInstance(h) == handParticles[h]

\* the overlay flag as it would be if only the left HandParticles were handed it
OverlayFlagLeftOnly(h) == h = "left" /\ isShowingText

\* lines 989-990: the isShowingText prop of the HandParticles of hand h, the one
\* useState value of HologramScene (line 895)
OverlayFlag(h) == isShowingText

\* one rendered frame, delta ms after the previous one: the useFrame callbacks of
\* both HandParticles and of HologramScene
Render(delta) ==
    /\ mounted
    /\ clock' = clock + delta
    /\ handParticles' = [h \in HandNames |->
            Tick(h, OwnInstance(h), Hand(h), Hand(Other(h)), OverlayFlag(h), delta,
                 clock + delta)]
    /\ applied' = [h \in HandNames |->
            Applied(h, Hand(h), Hand(Other(h)), OverlayFlag(h), clock + delta)]
    /\ groupRotation' = GroupRotation(appState.cameraOrbit)
    /\ FrameSelectorEffect
    /\ UNCHANGED <<shapes, textShape, lerpSpeeds, mounted, trackerVars,
                   observerVars, overlayVars>>

\* a frame rendered while state.clock.elapsedTime stays within MaxClock
Frame(delta) ==
    /\ clock + delta <= MaxClock
    /\ Render(delta)

\* the HandParticles instance after its first render (lines 816-821, 884-889)
NewHandParticles ==
    [shimmerValue |-> 0, prevIsFist |-> FALSE,
     position |-> [x |-> 0, y |-> 0, z |-> 0], rotationY |-> 0,
     visible |-> TRUE, size |-> 14000, opacity |-> 85000,
     pos |-> [j \in ParticleIds |-> [x |-> 0, y |-> 0, z |-> 0]],
     needsUpdate |-> 0]

\* the library as it would be if getMeshPoints returned the vertices of the
\* geometry as they are, one more than the particles here, instead of sampling
\* PARTICLE_COUNT of them
ShapeLibraryUnsampled ==
    [s \in 0..(LibrarySize - 1) |->
        [j \in 1..(IF s < 4 THEN ModelParticles + 1 ELSE ModelParticles) |->
            [x |-> (((s * 37 + j * 11) % 31) - 15) * 100,
             y |-> (((s * 17 + j * 7) % 29) - 14) * 100,
             z |-> (((s * 5 + j * 3) % 23) - 11) * 100]]]

\* lines 897-965: the library.  The generators' output is represented by fixed
\* coordinates in their range, different for every shape and particle.
ShapeLibrary ==
    [s \in 0..(LibrarySize - 1) |->
        [j \in ParticleIds |->
            [x |-> (((s * 37 + j * 11) % 31) - 15) * 100,
             y |-> (((s * 17 + j * 7) % 29) - 14) * 100,
             z |-> (((s * 5 + j * 3) % 23) - 11) * 100]]]

\* lines 767-804: generateLORDx for particle i (0-based) of the first segment,
\* the line from (-1.4, 0.5) to (-1.4, -0.5) with per = 400 particles, and
\* Math.random() = k / RandDenom for its depth
TextPoint(i, k) ==
    [x |-> -1400, y |-> 500 - (i * 1000) \div 400,
     z |-> Div(((k * 1000) \div RandDenom) - 500, 4)]

-----------------------------------------------------------------------------
(* Inputs *)

Detection(xs, ys, ds) ==
    [label : {"Left", "Right"}, wristX : xs, wristY : ys, avgDist : ds]

\* up to maxNumHands = 2 detections per result
ResultsOver(xs, ys, ds) ==
    {<<>>} \cup {<<d>> : d \in Detection(xs, ys, ds)}
           \cup {<<d, e>> : d \in Detection(xs, ys, ds), e \in Detection(xs, ys, ds)}

\* a closed and an open hand, on either side of the threshold
SelectorResults == ResultsOver({500}, {500}, {FistThreshold - 1, FistThreshold})

Deliver(inputs, cap) ==
    /\ fistCount < cap
    /\ \E results \in inputs : OnResults(results)
    /\ UNCHANGED samples

-----------------------------------------------------------------------------
(* Specifications *)

\* the state after the first render and its effects; delayDraws and speedDraws are
\* the values Math.random() may take in trigger() and in lerpSpeeds
Construct(delayDraws, speedDraws) ==
    /\ appState = [leftHand |-> INITIAL_HAND_STATE,
                   rightHand |-> INITIAL_HAND_STATE,
                   cameraOrbit |-> 0]
    /\ fistCount = 0
    /\ s1Loaded = FALSE
    /\ s2Loaded = FALSE
    /\ retryPending = FALSE
    /\ handsRef = "null"
    /\ cameraRef = "null"
    /\ mounted = TRUE
    /\ isShowingText = FALSE
    /\ \E k \in delayDraws : timers = Trigger(<<>>, k)
    /\ elapsed = 0
    /\ lastWait = None
    /\ lastShown = None
    /\ bump = [left |-> 0, right |-> 0]
    /\ branch = [left |-> "none", right |-> "none"]
    /\ transitions = 0
    /\ lastAssigned = [left |-> None, right |-> None]
    /\ absentSince = [left |-> FALSE, right |-> FALSE]
    /\ targets = <<>>
    /\ samples = 0
    /\ shapes = ShapeLibrary
    /\ textShape = [j \in ParticleIds |-> TextPoint(j - 1, 0)]
    /\ lerpSpeeds \in [HandNames -> [ParticleIds -> {LerpSpeed(k) : k \in speedDraws}]]
    /\ handParticles = [h \in HandNames |-> NewHandParticles]
    /\ groupRotation = [x |-> 0, y |-> 0]
    /\ clock = 0
    /\ applied = [h \in HandNames |-> [active |-> FALSE]]

Init == Construct(RandomDraws, {0})

DeliverSelector == Deliver(SelectorResults, MaxFistCount)

NextSelector ==
    \/ S1Load
    \/ S2Load
    \/ RetryFire
    \/ DeliverSelector

InitSelector == Construct({0}, {0})

SpecSelector == InitSelector /\ [][NextSelector]_vars

\* one open and one closed hand of either handedness, at the centre of the frame
SessionResults == ResultsOver({500}, {500}, {FistThreshold - 1, FistThreshold})

DeliverSession == Deliver(SessionResults, SessionMaxFist)

\* time passes up to the next timer coming due, at most Quantum ms at once
AdvanceQuantum ==
    Advance(IF Len(timers) > 0 /\ MinRemaining < Quantum THEN MinRemaining ELSE Quantum)

NextOverlay ==
    \/ TimerShow
    \/ TimerHide
    \/ AdvanceQuantum
    \/ Teardown
    \/ S1Load
    \/ S2Load
    \/ RetryFire
    \/ DeliverSession

\* the browser's event loop lets time pass and runs every timer that is due
SpecOverlay ==
    /\ Init
    /\ [][NextOverlay]_vars
    /\ WF_vars(TimerShow)
    /\ WF_vars(TimerHide)
    /\ WF_vars(AdvanceQuantum)

\* frame times: a 60 Hz frame and a slow one
Deltas == {16, 32}

FrameStep == \E delta \in Deltas : Frame(delta)

\* time passes up to the next timer coming due
AdvanceToTimer == Advance(IF Len(timers) > 0 THEN MinRemaining ELSE 1)

\* the hide timer fires and trigger() draws the shortest wait
TimerHideShortest == TimerHideWith({0})

\* results with at most one hand in view, open or closed, at the centre of the frame
SceneResults ==
    {r \in ResultsOver({500}, {500}, {FistThreshold - 1, FistThreshold}) : Len(r) <= 1}

DeliverScene == Deliver(SceneResults, SessionMaxFist)

InitScene == Construct({0}, {0, RandDenom - 1})

Next ==
    \/ S1Load
    \/ S2Load
    \/ RetryFire
    \/ DeliverScene
    \/ FrameStep
    \/ TimerShow
    \/ TimerHideShortest
    \/ AdvanceToTimer

Spec == InitScene /\ [][Next]_vars

\* the shimmer: frames 100 ms and 400 ms apart, at which a shimmer set to 1.0 has
\* decayed by a quarter and to nothing, while one hand opens and closes in view
SlowDeltas == {100, 400}

FrameSlow == \E delta \in SlowDeltas : clock + delta <= SlowClock /\ Render(delta)

InitShimmer == Construct({0}, {0})

NextShimmer ==
    \/ S1Load
    \/ S2Load
    \/ RetryFire
    \/ DeliverScene
    \/ FrameSlow

SpecShimmer == InitShimmer /\ [][NextShimmer]_vars

\* the first MaxSamples results of a session
DeliverUpTo(inputs) ==
    /\ samples < MaxSamples
    /\ \E results \in inputs : OnResults(results)
    /\ samples' = samples + 1

\* the two hands apart: the left hand open at one place of the frame, alone or with
\* the right hand open or closed at a place 3.4, 4.5 or 10.4 world units from it
LeftPlace == [label |-> "Left", wristX |-> 0, wristY |-> 0, avgDist |-> FistThreshold]

RightPlaces ==
    {d \in Detection({400, 1000}, {0, 500, 1000}, {FistThreshold - 1, FistThreshold}) :
        /\ d.label = "Right"
        /\ <<d.wristX, d.wristY>> \in {<<400, 0>>, <<400, 500>>, <<1000, 1000>>}}

SpreadResults == {<<>>, <<LeftPlace>>} \cup {<<LeftPlace, d>> : d \in RightPlaces}

DeliverSpread == DeliverUpTo(SpreadResults)

NextSpread ==
    \/ S1Load
    \/ S2Load
    \/ RetryFire
    \/ DeliverSpread
    \/ FrameStep

SpecSpread == InitShimmer /\ [][NextSpread]_vars

\* the camera orbit: open hands at the left edge, the centre and the right edge of
\* the frame
OrbitResults == ResultsOver({0, 500, 1000}, {500}, {FistThreshold})

DeliverOrbit == DeliverUpTo(OrbitResults)

NextOrbit ==
    \/ S1Load
    \/ S2Load
    \/ RetryFire
    \/ DeliverOrbit

SpecOrbit == InitShimmer /\ [][NextOrbit]_vars

\* the morph toward a locked shape, followed frame by frame: the left hand closes
\* at the centre of the frame and stays closed
ConvergeResults ==
    {<<[label |-> "Left", wristX |-> 500, wristY |-> 500, avgDist |-> FistThreshold - 1]>>}

DeliverConverge == Deliver(ConvergeResults, SessionMaxFist)

FrameFast == clock + 16 <= LongClock /\ Render(16)

InitConverge == Construct({0}, {RandDenom - 1})

NextConverge ==
    \/ S1Load
    \/ S2Load
    \/ RetryFire
    \/ DeliverConverge
    \/ FrameFast

SpecConverge == InitConverge /\ [][NextConverge]_vars

\* one session from the start: AbsentSamples results without a hand, then the left
\* hand open at the centre of the frame for OpenTicks frames, then closed and held;
\* the right hand is never seen.  All of it is over before the overlay's first
\* wait of MinDelay ms can end
LeftOpen == <<[label |-> "Left", wristX |-> 500, wristY |-> 500, avgDist |-> FistThreshold]>>

LeftClosed ==
    <<[label |-> "Left", wristX |-> 500, wristY |-> 500, avgDist |-> FistThreshold - 1]>>

ScenarioResult ==
    IF samples < AbsentSamples THEN <<>>
    ELSE IF ~Hand("left").isActive THEN LeftOpen
    ELSE LeftClosed

DeliverScenario ==
    /\ \/ samples < AbsentSamples
       \/ ~Hand("left").isActive
       \/ ~Hand("left").isFist /\ handParticles.left.needsUpdate = OpenTicks
    /\ OnResults(ScenarioResult)
    /\ samples' = samples + 1

FrameScenario ==
    /\ clock + 16 <= ScenarioClock
    /\ Hand("left").isActive /\ ~Hand("left").isFist =>
           handParticles.left.needsUpdate < OpenTicks
    /\ Render(16)

NextScenario ==
    \/ S1Load
    \/ S2Load
    \/ RetryFire
    \/ DeliverScenario
    \/ FrameScenario

SpecScenario == InitConverge /\ [][NextScenario]_vars

\* the first results of a session: each hand absent, open or closed in each of
\* them, MaxSamples results in all
DeliverAppear == DeliverUpTo(SelectorResults)

NextAppear ==
    \/ S1Load
    \/ S2Load
    \/ RetryFire
    \/ DeliverAppear

SpecAppear == InitSelector /\ [][NextAppear]_vars

\* the overlay with both hands in view: each hand open or closed at the centre of
\* the frame, frames, and the overlay timers
FlagResults ==
    {r \in SelectorResults : Len(r) = 0 \/ (Len(r) = 2 /\ r[1].label = "Left" /\ r[2].label = "Right")}

DeliverFlag == Deliver(FlagResults, SessionMaxFist)

NextFlag ==
    \/ S1Load
    \/ S2Load
    \/ RetryFire
    \/ DeliverFlag
    \/ FrameStep
    \/ TimerShow
    \/ TimerHideShortest
    \/ AdvanceToTimer

SpecFlag == InitShimmer /\ [][NextFlag]_vars

\* the camera orbit followed to its limits: the hands of OrbitResults stay where
\* they are, result after result, until the orbit has settled; then the next
\* result is any of OrbitResults
Settled ==
    NewOrbit(appState.cameraOrbit, appState.leftHand, appState.rightHand)
      = appState.cameraOrbit

Holds(results) ==
    LET hs == Assign(results, 1, Null, Null)
        same(current, stored) ==
            IF IsNull(current) THEN ~stored.isActive
            ELSE stored.isActive /\ current.position = stored.position
    IN  same(hs.left, appState.leftHand) /\ same(hs.right, appState.rightHand)

DeliverHeld ==
    \E results \in OrbitResults :
        /\ Settled \/ Holds(results)
        /\ OnResults(results)
        /\ UNCHANGED samples

NextHeld ==
    \/ S1Load
    \/ S2Load
    \/ RetryFire
    \/ DeliverHeld

SpecHeld == InitShimmer /\ [][NextHeld]_vars

-----------------------------------------------------------------------------
(* The gesture shape selector: C1 - C6 *)

\* the 1-based number, over both hands, of the transition hand h made in the
\* last update (the left hand is updated before the right one)
TransitionNumber(h) ==
    IF h = "left" /\ branch.right = "fistClose" THEN transitions - 1 ELSE transitions

\* C1: the k-th open->fist transition, counted over both hands, gives the
\* transitioning hand shapeIndex (k-1) mod librarySize, librarySize being the
\* number of shapes the library holds.
C1_KthTransitionShape ==
    \A h \in HandNames :
        branch[h] = "fistClose" =>
            Hand(h).shapeIndex = (TransitionNumber(h) - 1) % LibrarySize

\* C2 as stated: a hand that was assigned shapeIndex s, was absent and is
\* detected again without fisting still has shapeIndex s.
C2_AbsencePreservesIndex ==
    \A h \in HandNames :
        (/\ lastAssigned[h] # None
         /\ absentSince[h]
         /\ Hand(h).isActive
         /\ ~Hand(h).isFist) => Hand(h).shapeIndex = lastAssigned[h]

\* C2 amended: a sample without the hand resets its shapeIndex to 0, and the
\* hand keeps 0, absent or detected again, until its next open->fist
\* transition; a hand that was not absent since its last transition has the
\* shapeIndex that transition assigned.
C2_AbsenceResetsIndex ==
    \A h \in HandNames :
        /\ absentSince[h] => Hand(h).shapeIndex = 0
        /\ (~absentSince[h] /\ lastAssigned[h] # None) =>
               Hand(h).shapeIndex = lastAssigned[h]

\* a hand assigned a shape other than 0, absent, then detected open
C2_Witness ==
    /\ lastAssigned.left > 0
    /\ absentSince.left
    /\ appState.leftHand.isActive
    /\ ~appState.leftHand.isFist
    /\ branch.left = "carry"

\* C3: a hand detected in two consecutive samples without an open->fist
\* transition between them keeps its shapeIndex, and its updateHand call
\* leaves the counter alone, whatever shapeIndex the sample carried.
C3_Step ==
    /\ (/\ appState.leftHand.isActive
        /\ appState.leftHand'.isActive
        /\ ~(appState.leftHand'.isFist /\ ~appState.leftHand.isFist))
       => (/\ appState.leftHand'.shapeIndex = appState.leftHand.shapeIndex
           /\ bump'.left = 0)
    /\ (/\ appState.rightHand.isActive
        /\ appState.rightHand'.isActive
        /\ ~(appState.rightHand'.isFist /\ ~appState.rightHand.isFist))
       => (/\ appState.rightHand'.shapeIndex = appState.rightHand.shapeIndex
           /\ bump'.right = 0)

C3_CarryForward == [][C3_Step]_vars

\* a hand holding a shape other than the tracker's 0 through a sample that is
\* no transition
C3_Witness ==
    /\ branch.left = "carry"
    /\ appState.leftHand.isActive
    /\ appState.leftHand.shapeIndex > 0
    /\ ~absentSince.left
    /\ bump.left = 0

\* C4: the counter is one value for both hands, starts at 0, never decreases
\* and grows by exactly one per open->fist transition of either hand and by
\* nothing else.
C4_CounterCountsTransitions ==
    /\ fistCount = transitions
    /\ fistCount >= 0
    /\ \A h \in HandNames : bump[h] = IF branch[h] = "fistClose" THEN 1 ELSE 0

\* both hands closed in one sample after earlier transitions
C4_Witness ==
    /\ branch.left = "fistClose"
    /\ branch.right = "fistClose"
    /\ fistCount > 3

\* C5: in any run of librarySize consecutive open->fist transitions every
\* shape of the library is the locked target of exactly one of them.
C5_RoundRobin ==
    Len(targets) = LibrarySize =>
        {targets[i] : i \in 1..LibrarySize} = 0..(LibrarySize - 1)

\* C6: every shapeIndex a HandState holds is an index of the library.
C6_IndexInLibrary ==
    \A h \in HandNames : Hand(h).shapeIndex \in 0..(LibrarySize - 1)

-----------------------------------------------------------------------------
(* The overlay scheduler: C7 - C9 *)

Kinds(ts) == [i \in 1..Len(ts) |-> ts[i].kind]

C7_Timing ==
    /\ lastWait # None => (15000 <= lastWait /\ lastWait < 45000)
    /\ lastShown # None => lastShown = 3000
    /\ mounted =>
          /\ Len(timers) = 1
          /\ IF isShowingText
             THEN /\ timers[1].kind = "hide"
                  /\ elapsed + timers[1].remaining = 3000
             ELSE /\ timers[1].kind = "show"
                  /\ 15000 <= elapsed + timers[1].remaining
                  /\ elapsed + timers[1].remaining < 45000

\* C7: the flag turns true only after a wait of 15000 <= w < 45000 ms from
\* arming, stays true for exactly 3000 ms, turns false with a new wait armed at
\* that instant, and the cycle repeats for as long as the session lives.
C7_OverlayCycle ==
    /\ []C7_Timing
    /\ []<>(isShowingText \/ ~mounted)
    /\ []<>(~isShowingText \/ ~mounted)

\* a whole cycle done: waited, shown, hidden and armed again at this instant
C7_Witness ==
    /\ mounted
    /\ lastWait # None
    /\ lastShown = 3000
    /\ ~isShowingText
    /\ elapsed = 0
    /\ Len(timers) = 1

\* C8: at most one overlay timer exists at any time, the flag turns true only
\* while it is false, and two showing windows are at least 15000 ms apart.
C8_NoOverlap ==
    /\ Len(timers) <= 1
    /\ (mounted /\ \E i \in 1..Len(timers) : timers[i].kind = "show")
          => ~isShowingText
    /\ (isShowingText /\ lastShown # None) => lastWait >= 15000

\* a second showing window has begun
C8_Witness ==
    /\ mounted
    /\ isShowingText
    /\ lastShown # None
    /\ elapsed = 0

\* C9: after teardown no overlay timer fires, no wait is armed, the flag does
\* not change and no sample reaches the selector.
C9_Step ==
    ~mounted =>
        /\ Kinds(timers') = Kinds(timers)
        /\ UNCHANGED <<isShowingText, appState, fistCount, branch, bump,
                       transitions>>

C9_TeardownStops == [][C9_Step]_vars

-----------------------------------------------------------------------------
(* The morph engine: C10 *)

\* the buffer of hand h moved by factor (ten-thousandths) toward target
MovedToward(h, target, factor) ==
    \A j \in ParticleIds :
        handParticles'[h].pos[j] =
            LerpPoint(handParticles[h].pos[j], target[j], factor[j])

C10_Step ==
    \A h \in HandNames :
        (clock' # clock /\ Hand(h).isActive) =>
            LET plan == applied'[h].plan
            IN  /\ applied'[h].active
                /\ plan.mode \in {"locked", "overlay", "ambient"}
                /\ Hand(h).isFist =>
                      /\ plan.mode = "locked"
                      /\ MovedToward(h, shapes[Hand(h).shapeIndex % LibrarySize],
                                     lerpSpeeds[h])
                /\ (~Hand(h).isFist /\ isShowingText) =>
                      /\ plan.mode = "overlay"
                      /\ MovedToward(h, textShape,
                                     [j \in ParticleIds |-> (lerpSpeeds[h][j] * 15) \div 10])
                /\ (~Hand(h).isFist /\ ~isShowingText) =>
                      /\ plan.mode = "ambient"
                      /\ MovedToward(h, plan.target, [j \in ParticleIds |-> 500])

\* C10: on every tick of an active hand the mode follows from isFist and the
\* overlay flag alone, the fist first: fisted, the particles move toward
\* ShapeLibrary[shapeIndex mod librarySize] by their own factor whatever the
\* flag; open with the flag set, toward the text shape by 1.5 times that
\* factor; open with the flag clear, toward the ambient target by 0.05.
C10_ModeByFistAndOverlay == [][C10_Step]_vars

\* a fisted hand ticked while the overlay was showing, and locked to its shape
C10_Witness ==
    /\ applied.left.active
    /\ applied.left.isFist
    /\ applied.left.showing
    /\ applied.left.plan.mode = "locked"
    /\ handParticles.left.pos # NewHandParticles.pos

(***************************************************************************)
(* The frame of one hand: C11 - C14                                        *)
(***************************************************************************)

\* the step is a rendered frame
IsFrame == clock' # clock

\* what a frame does to hand h's particles when the hand is inactive, and when it
\* is active
C11_Step(h) ==
    LET before == handParticles[h]
        after == handParticles'[h]
    IN  IF ~Hand(h).isActive
        THEN /\ after.pos = before.pos
             /\ after.needsUpdate = before.needsUpdate
             /\ ~after.visible
        ELSE /\ after.visible
             /\ after.needsUpdate = before.needsUpdate + 1

\* C11: a frame of an inactive hand leaves the particle position buffer exactly as
\* it was, does not raise needsUpdate and makes the points invisible; a frame of an
\* active hand makes them visible and raises needsUpdate
C11_InactiveFreezesBuffer == [][IsFrame => \A h \in HandNames : C11_Step(h)]_vars

\* the left hand was morphed by one frame, went out of view, and the next frame
\* hid its particles where they were
C11_Witness ==
    /\ ~handParticles.left.visible
    /\ handParticles.left.needsUpdate = 1
    /\ handParticles.left.pos # NewHandParticles.pos
    /\ clock = MaxClock

\* the anchor of hand h goes 15% of the way to the hand's position and the points
\* turn by 0.4 rad per second
AnchorFollows(h) ==
    /\ handParticles'[h].position =
           [c \in {"x", "y", "z"} |->
               handParticles[h].position[c]
                 + Div((Hand(h).position[c] - handParticles[h].position[c]) * 15, 100)]
    /\ handParticles'[h].rotationY = handParticles[h].rotationY + (clock' - clock) * 400

\* the anchor and the rotation of hand h stay as they are
AnchorFrozen(h) ==
    /\ handParticles'[h].position = handParticles[h].position
    /\ handParticles'[h].rotationY = handParticles[h].rotationY

\* C12 as stated: the anchor moves 15% of the remaining distance toward the hand's
\* position and the rotation advances only on a frame of an active hand; a frame
\* of an inactive hand leaves anchor and rotation unchanged
C12_AnchorOnlyWhenActive ==
    [][IsFrame => \A h \in HandNames :
                     IF Hand(h).isActive THEN AnchorFollows(h) ELSE AnchorFrozen(h)]_vars

\* C12 as the code has it: on every frame, of an active hand or not, the anchor
\* moves 15% of the remaining distance toward the hand's position (the origin for
\* an inactive hand) and the rotation advances by 0.4 rad per second
C12_AnchorEveryFrame == [][IsFrame => \A h \in HandNames : AnchorFollows(h)]_vars

\* the left anchor was pulled to z = 0.075 by one frame of a fisted hand, and the
\* next frame, of the hand then out of view, pulled it back to z = 0.064 and
\* turned the hidden points on
C12_Witness ==
    /\ ~handParticles.left.visible
    /\ handParticles.left.position.z = 64
    /\ handParticles.left.rotationY = MaxClock * 400

\* the shimmer of hand h after a frame: set to 1.0 if the frame sees the hand
\* fisted and the frame before did not, then lowered by 2.5 per second and kept
\* at 0 or above
C13_Step(h) ==
    LET before == handParticles[h].shimmerValue
        after == handParticles'[h].shimmerValue
        flip == Hand(h).isFist /\ ~handParticles[h].prevIsFist
        from == IF flip THEN 1000 ELSE before
        drop == ((clock' - clock) * 25) \div 10
    IN  /\ after = (IF from - drop < 0 THEN 0 ELSE from - drop)
        /\ handParticles'[h].prevIsFist = Hand(h).isFist
        /\ ~flip => after <= before
        /\ ~flip /\ before > 0 => after < before

\* C13: a frame that sees the hand fisted, the frame before not, sets the shimmer
\* to 1.0; every frame then lowers it by 2.5 per second of elapsed time, not below
\* 0. The shimmer is within [0, 1] in every state, grows on such a frame only, and
\* every other frame makes it strictly smaller until it is 0
C13_ShimmerDecays ==
    /\ [](\A h \in HandNames : handParticles[h].shimmerValue \in 0 .. 1000)
    /\ [][IsFrame => \A h \in HandNames : C13_Step(h)]_vars

\* the left hand is held fisted: its shimmer was set, has decayed and was floored
\* at 0 by a frame that would have taken it below
C13_Witness ==
    /\ handParticles.left.prevIsFist
    /\ Hand("left").isFist
    /\ handParticles.left.shimmerValue = 0
    /\ clock = 500

\* shimmer values a second run of the frame starts from
ShimmerLevels == {0, 500, 1000}

\* the frame of hand h, delta ms after the present state, started from shimmer v
RunFrom(h, v, delta) ==
    Tick(h, [handParticles[h] EXCEPT !.shimmerValue = v], Hand(h), Hand(Other(h)),
         isShowingText, delta, clock + delta)

\* the instance without the shimmer and the two scalars computed from it
Unlit(hp) == [hp EXCEPT !.shimmerValue = 0, !.size = 0, !.opacity = 0]

\* C14: two runs of the frame of a hand that differ only in the shimmer they start
\* from end with the same particle buffer, anchor and visibility, and differ in
\* nothing but the shimmer and the size and opacity handed to the material
C14_ShimmerOnlyScalars ==
    \A h \in HandNames : \A delta \in Deltas : \A v \in ShimmerLevels :
        LET one == RunFrom(h, handParticles[h].shimmerValue, delta)
            two == RunFrom(h, v, delta)
        IN  /\ one.pos = two.pos
            /\ one.position = two.position
            /\ one.visible = two.visible
            /\ Unlit(one) = Unlit(two)
            /\ (one.size = two.size) = (one.shimmerValue = two.shimmerValue)

\* a frame has morphed the particles of the fisted left hand while its shimmer was
\* on, and the next frame from this state does so again
C14_Witness ==
    /\ handParticles.left.visible
    /\ handParticles.left.shimmerValue = 960
    /\ handParticles.left.pos # NewHandParticles.pos
    /\ Hand("left").isFist
    /\ RunFrom("left", 0, 16).size # RunFrom("left", 960, 16).size
    /\ RunFrom("left", 0, 16).pos # handParticles.left.pos

-----------------------------------------------------------------------------
(* The numbers of the morph engine and of the orbit: C15 - C17 *)

\* the squared (x, y) distance between the two hands, in millionths
HandsApartSquared ==
    LET dx == Hand("left").position.x - Hand("right").position.x
        dy == Hand("left").position.y - Hand("right").position.y
    IN  dx * dx + dy * dy

\* the spread s (thousandths) is 1 + min(0.5 * d, 3.0) for the d whose square is n
\* (millionths), d taken to the thousandth below
IsSpreadOf(s, n) ==
    LET e == s - 1000
    IN  IF n >= 6000 * 6000 THEN e = 3000
        ELSE /\ e \in 0 .. 2999
             /\ (2 * e) * (2 * e) <= n
             /\ n < (2 * e + 2) * (2 * e + 2)

\* the spread a frame has used for the ambient cloud of hand h
C15_Step(h) ==
    LET other == Hand(Other(h))
        used == applied'[h]
    IN  Hand(h).isActive /\ used.plan.mode = "ambient" =>
            /\ used.spread \in 1000 .. 4000
            /\ IF ~other.isActive \/ other.isFist THEN used.spread = 1000
               ELSE IsSpreadOf(used.spread, HandsApartSquared)
            /\ \A j \in ParticleIds :
                   used.plan.target[j] = CloudTarget(j - 1, clock', used.spread)

\* C15: the spread of the ambient cloud is 1.0 when the other hand is inactive or
\* fisted and 1 + min(0.5 * d, 3.0) otherwise, d the (x, y) distance of the two
\* hands; it is within [1.0, 4.0] at every distance
C15_SpreadBounded == [][IsFrame => \A h \in HandNames : C15_Step(h)]_vars

\* both hands are open, 10.4 units apart, and a frame has spread the cloud of the
\* left one by the largest factor, 4.0
C15_Witness ==
    /\ applied.left.active
    /\ applied.left.plan.mode = "ambient"
    /\ applied.left.spread = 4000
    /\ HandsApartSquared > 6000 * 6000
    /\ Hand("right").isActive /\ ~Hand("right").isFist

Coordinates == {"x", "y", "z"}

\* squared distance of two points
DistanceSquared(p, q) ==
    (p.x - q.x) * (p.x - q.x) + (p.y - q.y) * (p.y - q.y) + (p.z - q.z) * (p.z - q.z)

\* q lies between p and t
Between(p, q, t) == (p <= q /\ q <= t) \/ (t <= q /\ q <= p)

\* every factor the engine can use for hand h, whatever the mode, is within (0, 1),
\* and the per-particle constant within [0.07, 0.15)
FactorsInRange(h) ==
    /\ \A j \in ParticleIds : lerpSpeeds[h][j] \in 700 .. 1499
    /\ \A fist \in BOOLEAN : \A showing \in BOOLEAN : \A j \in ParticleIds :
           LET hand == [Hand(h) EXCEPT !.isActive = TRUE, !.isFist = fist]
               plan == MorphPlan(h, hand, Hand(Other(h)), showing, clock)
           IN  /\ plan.factor[j] \in 1 .. 9999
               /\ plan.factor[j] \in {lerpSpeeds[h][j], (lerpSpeeds[h][j] * 3) \div 2, 500}

\* the frame has not taken particle j of hand h past its target in any coordinate
NoOvershoot(h, j) ==
    \A c \in Coordinates :
        Between(handParticles[h].pos[j][c], handParticles'[h].pos[j][c],
                applied'[h].plan.target[j][c])

IsSample == samples' # samples

\* the hands of the new state that are active
ActiveAfter == {h \in HandNames : Hand(h)'.isActive}

\* the orbit after a delivery, to the millionth: 0.96 times the orbit before with
\* no hand active, and else 0.94 times it plus 0.06 * 0.4 times the average x of
\* the active hands
C17_Step ==
    LET before == appState.cameraOrbit
        after == appState'.cameraOrbit
        n == Cardinality(ActiveAfter)
        sum == (IF "left" \in ActiveAfter THEN Hand("left")'.position.x ELSE 0)
                 + (IF "right" \in ActiveAfter THEN Hand("right")'.position.x ELSE 0)
    IN  IF n = 0
        THEN /\ Abs(100 * after - 96 * before) < 100
             /\ Abs(after) <= Abs(before)
             /\ before > 0 => after >= 0
             /\ before < 0 => after <= 0
        ELSE Abs(100 * n * after - (94 * n * before + 2400 * sum)) < 100 * n

-----------------------------------------------------------------------------
(* The tracker and the frames side by side: C18 - C20 *)

\* the step writes the fist counter, a hand's shapeIndex or the orbit
WritesSelector ==
    \/ fistCount' # fistCount
    \/ appState'.cameraOrbit # appState.cameraOrbit
    \/ \E h \in HandNames : Hand(h)'.shapeIndex # Hand(h).shapeIndex

\* C18 as stated: the fist counter, the shape selection and the orbit are written
\* by rendered frames only; the delivery of a result writes none of them
C18_WrittenByRenderTick == [][WritesSelector => IsFrame]_vars

\* C18 as the code has it: the fist counter, the shape selection and the orbit are
\* written only by the handleHandUpdate updater, run once for each result the
\* tracker delivers; a rendered frame reads them and writes none of them
C18_WrittenByHandler ==
    [][/\ IsFrame => UNCHANGED <<appState, fistCount>>
       /\ WritesSelector => IsSample /\ ~IsFrame]_vars

\* before any frame was rendered, three results have taken the counter to 2, the
\* right hand's shapeIndex to 1 and the orbit off 0
C18_Witness ==
    /\ clock = 0
    /\ fistCount = 2
    /\ Hand("right").shapeIndex = 1
    /\ appState.cameraOrbit # 0

\* the frame has worked on the hand state of h that the last delivery left
UsesLatest(h) ==
    /\ applied'[h].active = Hand(h).isActive
    /\ Hand(h).isActive =>
           /\ applied'[h].isFist = Hand(h).isFist
           /\ applied'[h].shapeIndex = Hand(h).shapeIndex
    /\ handParticles'[h].prevIsFist = Hand(h).isFist

\* C19: a frame can be rendered whatever the tracker has or has not delivered; it
\* works on the pair delivered last, the same pair again if nothing was delivered
\* since the frame before, and leaves the fist counter and every shapeIndex as the
\* delivery set them, however many frames see the same fisted sample
C19_FramesReuseLatest ==
    /\ [](clock + 100 <= SlowClock => ENABLED FrameSlow)
    /\ [][IsFrame => /\ \A h \in HandNames : UsesLatest(h)
                     /\ fistCount' = fistCount
                     /\ \A h \in HandNames : Hand(h)' = Hand(h)]_vars

\* the second fist of the session, the left hand's, was delivered once and two
\* frames have worked on it: the counter is 2 and the shapeIndex 1, as delivered
C19_Witness ==
    /\ clock = 200
    /\ handParticles.left.shimmerValue = 500
    /\ handParticles.left.prevIsFist
    /\ applied.left.active /\ applied.left.shapeIndex = 1
    /\ Hand("left").shapeIndex = 1
    /\ fistCount = 2

\* hand h is in the inactive default state
IsDefault(h) ==
    /\ ~Hand(h).isActive
    /\ ~Hand(h).isFist
    /\ Hand(h).position = [x |-> 0, y |-> 0, z |-> 0]

\* C20: a hand that was absent (null) in the pair delivered last is in the
\* inactive default state: not active, not fisted, at the origin; and as long as
\* the tracker has delivered nothing, both hands are, and no frame shows them
C20_AbsentIsDefault ==
    /\ \A h \in HandNames : branch[h] = "absent" => IsDefault(h)
    /\ samples = 0 =>
           \A h \in HandNames :
               /\ IsDefault(h)
               /\ clock > 0 => ~handParticles[h].visible /\ ~applied[h].active

\* the right hand closed away from the centre, was then missing from a pair that
\* had the left hand in it, and is back in the default state
C20_Witness ==
    /\ branch.right = "absent"
    /\ transitions = 1
    /\ lastAssigned.right = 0
    /\ Hand("left").isActive
    /\ IsDefault("right")
    /\ appState.cameraOrbit # 0

-----------------------------------------------------------------------------
(* The library and the buffers: C21 - C23 *)

\* the frame of hand h, closed, rendered 16 ms after the present state
LockedFrame(h) ==
    Tick(h, handParticles[h], [Hand(h) EXCEPT !.isActive = TRUE, !.isFist = TRUE],
         Hand(Other(h)), isShowingText, 16, clock + 16)

\* C21: whatever shapeIndex a hand holds, the lookup shapes[shapeIndex mod
\* librarySize] finds a shape of the library, and a frame of the hand closed
\* moves every particle toward the point of that shape: the morph is never
\* skipped for want of a target
C21_LookupDefined ==
    \A h \in HandNames :
        LET hand == [Hand(h) EXCEPT !.isActive = TRUE, !.isFist = TRUE]
        IN  /\ MorphPlan(h, hand, Hand(Other(h)), isShowingText, clock + 16).found
            /\ Hand(h).shapeIndex % LibrarySize \in DOMAIN shapes
            /\ \A j \in ParticleIds :
                   LockedFrame(h).pos[j] =
                       LerpPoint(handParticles[h].pos[j],
                                 shapes[Hand(h).shapeIndex % LibrarySize][j],
                                 lerpSpeeds[h][j])

\* a closed hand holds shapeIndex 64, past the last index of the library, and
\* its frame moves the particles toward shape 2
C21_Witness ==
    /\ Hand("left").isFist
    /\ Hand("left").shapeIndex = 64
    /\ LockedFrame("left").pos # handParticles.left.pos
    /\ LockedFrame("left").pos[1] =
           LerpPoint(handParticles.left.pos[1], shapes[2][1], lerpSpeeds.left[1])

\* a buffer holds one point of three finite numbers for every modelled particle
IsBuffer(b) ==
    /\ DOMAIN b = ParticleIds
    /\ \A j \in ParticleIds : \A c \in Coordinates : b[j][c] \in Int

KeepsOwn(h) ==
    /\ ~Hand(h).isActive => handParticles'[h].pos = handParticles[h].pos
    /\ ~(Hand(h).isFist /\ ~handParticles[h].prevIsFist) =>
           handParticles'[h].shimmerValue <= handParticles[h].shimmerValue
    /\ handParticles'[h].prevIsFist = Hand(h).isFist

\* C23: no step - frame, delivery or overlay timer - changes a shape of the library
\* or the text shape, and the frame of one hand leaves the buffer, the shimmer
\* and the previous-fist flag of the other hand to that hand's own frame
C23_SharedReadOnly ==
    [][/\ shapes' = shapes
       /\ textShape' = textShape
       /\ IF IsFrame THEN \A h \in HandNames : KeepsOwn(h)
          ELSE handParticles' = handParticles]_vars

\* the left hand was morphed and went out of view, the right hand then closed: the
\* frame that set the shimmer of the right hand left the left buffer where it was
\* and the left shimmer decaying
C23_Witness ==
    /\ handParticles.right.prevIsFist
    /\ handParticles.right.shimmerValue = 960
    /\ ~handParticles.left.prevIsFist
    /\ handParticles.left.shimmerValue = 920
    /\ ~handParticles.left.visible
    /\ handParticles.left.pos # NewHandParticles.pos
    /\ handParticles.left.pos # handParticles.right.pos
    /\ shapes = ShapeLibrary

-----------------------------------------------------------------------------
(* One session from the start: C24 *)

\* what the scenario says of a step, but for the distances of the last phase
C24_Phases ==
    \* no hand for the first AbsentSamples results: inactive, shapeIndex untouched
    /\ samples' <= AbsentSamples =>
           /\ ~Hand("left")'.isActive
           /\ Hand("left")'.shapeIndex = 0
           /\ fistCount' = 0
    \* the right hand is never seen
    /\ ~Hand("right")'.isActive
    \* a frame of the open hand: the ambient cloud, not spread
    /\ IsFrame /\ Hand("left").isActive /\ ~Hand("left").isFist =>
           /\ applied'.left.plan.mode = "ambient"
           /\ applied'.left.spread = 1000
    \* the result with the hand closed: the counter goes from 0 to 1, the shape is 0
    /\ ~Hand("left").isFist /\ Hand("left")'.isFist =>
           /\ fistCount = 0 /\ fistCount' = 1
           /\ Hand("left")'.shapeIndex = 0
    \* the first frame of the closed hand sets the shimmer to 1.0 and lets it decay,
    \* the following ones let it decay; the target is shape 0 of the library
    /\ IsFrame /\ Hand("left").isFist =>
           /\ handParticles'.left.shimmerValue
                 = (IF handParticles.left.prevIsFist
                    THEN (IF handParticles.left.shimmerValue < 40 THEN 0
                          ELSE handParticles.left.shimmerValue - 40)
                    ELSE 1000 - 40)
           /\ applied'.left.plan.mode = "locked"
           /\ applied'.left.plan.target = ShapeLibrary[0]

ClosingHands ==
    {h \in HandNames : Hand(h)'.isActive /\ Hand(h)'.isFist /\ ~Hand(h).isFist}

\* C25: a result counts as an open->fist transition of a hand exactly when it
\* holds the hand closed and the stored state of the hand is not closed: each
\* step adds to the counter the number of such hands and sets the branch taken
\* accordingly; a hand stored as inactive, never detected or absent in the
\* result before, that appears closed raises the counter, from 0 as well
C25_TransitionIffClosing ==
    [][/\ fistCount' - fistCount = Cardinality(ClosingHands)
       /\ IsSample =>
              \A h \in HandNames : (branch'[h] = "fistClose") <=> (h \in ClosingHands)
       /\ \A h \in HandNames :
              ~Hand(h).isActive /\ Hand(h)'.isFist =>
                  /\ fistCount' > fistCount
                  /\ bump'[h] = 1]_vars

\* the first result of the session held both hands closed, neither detected
\* before: the counter is 2
C25_Witness ==
    /\ samples = 1
    /\ transitions = 2
    /\ fistCount = 2
    /\ \A h \in HandNames : Hand(h).isFist /\ branch[h] = "fistClose"

\* C26: a delivery, with the selector step it runs, and a rendered frame leave the
\* overlay flag and its timers alone; a timer firing or being armed leaves every
\* HandState, the fist counter and the orbit alone; and the frames of both hands
\* work on the one flag of the scene
C26_OverlayIndependent ==
    [][/\ (appState' # appState \/ fistCount' # fistCount \/ IsFrame) =>
              UNCHANGED <<isShowingText, timers>>
       /\ (isShowingText' # isShowingText \/ timers' # timers) =>
              UNCHANGED <<appState, fistCount, handParticles>>
       /\ IsFrame =>
              \A h \in HandNames :
                  applied'[h].active => applied'[h].showing = isShowingText]_vars

\* a frame of both hands with the flag set: the open left hand morphs toward the
\* text, the closed right hand toward its shape, the counter as the delivery left it
C26_Witness ==
    /\ isShowingText
    /\ fistCount = 1
    /\ applied.left.active /\ applied.right.active
    /\ applied.left.showing /\ applied.right.showing
    /\ applied.left.plan.mode = "overlay"
    /\ applied.right.plan.mode = "locked"

\* the frame finds hand h closed with a shapeIndex it did not have, closed, at
\* the frame before: a transition has assigned it since
NewlyAssigned(h) ==
    /\ Hand(h).isFist
    /\ applied[h].active =>
           \/ ~applied[h].isFist
           \/ applied[h].shapeIndex # Hand(h).shapeIndex

\* C27: however deliveries and frames interleave, the frame of a hand that follows
\* an increment of the counter by that hand sees isFist go from false to true:
\* the first frame of a hand closed with a newly assigned shapeIndex sets the
\* shimmer to 1.0, less the decay of that frame
C27_AssignmentShimmers ==
    [][IsFrame =>
          \A h \in HandNames :
              NewlyAssigned(h) =>
                  handParticles'[h].shimmerValue
                    = Max(0, 1000 - ((clock' - clock) * 5) \div 2)]_vars

\* C28: a result in which both hands close raises the counter by exactly 2; the
\* left hand receives the counter before the result mod 65 as its shapeIndex and
\* the right hand the one after it, never the same
C28_BothClose ==
    [][ClosingHands = HandNames =>
          /\ fistCount' = fistCount + 2
          /\ Hand("left")'.shapeIndex = fistCount % SelectorModulus
          /\ Hand("right")'.shapeIndex = (fistCount + 1) % SelectorModulus
          /\ Hand("left")'.shapeIndex # Hand("right")'.shapeIndex]_vars

\* both hands closed in one result at counter 64: the left hand has 64, the right
\* hand 0
C28_Witness ==
    /\ bump = [left |-> 1, right |-> 1]
    /\ fistCount = SelectorModulus + 1
    /\ Hand("left").isFist /\ Hand("right").isFist
    /\ Hand("left").shapeIndex = SelectorModulus - 1
    /\ Hand("right").shapeIndex = 0

\* the largest |x| of a hand position: the wrist at an edge of the frame
EdgeX ==
    MakeHandState([label |-> "Left", wristX |-> 0, wristY |-> 500,
                   avgDist |-> FistThreshold]).position.x

\* 0.4 times that, in millionths
OrbitLimit == EdgeX * 400

\* 0.4 times the average x of the active hands after the step, 0 with none, in
\* millionths
OrbitTarget ==
    LET l == Hand("left")'
        r == Hand("right")'
    IN  IF l.isActive /\ r.isActive THEN (l.position.x + r.position.x) * 200
        ELSE IF l.isActive THEN l.position.x * 400
        ELSE IF r.isActive THEN r.position.x * 400
        ELSE 0

\* C29: from orbit 0, whatever results are delivered, |orbit| never exceeds 0.4
\* times the largest |x| of a hand position, that is 1.7: every update leaves the
\* orbit between the orbit before it and the target, which is within the limit
C29_OrbitBounded ==
    [][/\ Abs(appState'.cameraOrbit) <= OrbitLimit
       /\ Abs(OrbitTarget) <= OrbitLimit
       /\ appState'.cameraOrbit # appState.cameraOrbit =>
              Between(appState.cameraOrbit, appState'.cameraOrbit, OrbitTarget)]_vars

\* one hand held at the edge of the frame until the orbit has settled, within a
\* thousandth of the limit
C29_Witness ==
    /\ Hand("left").isActive /\ ~Hand("right").isActive
    /\ Hand("left").position.x = EdgeX
    /\ Settled
    /\ appState.cameraOrbit * 1000 >= OrbitLimit * 999
    /\ appState.cameraOrbit <= OrbitLimit

====
